---- MODULE Spec2Model ----
(***************************************************************************)
(* Model of the /upload handler of src/app.py (sales-pivot): the           *)
(* classification of rows into clusters and BUs, the grouping of the sales *)
(* and OB sheets, their outer merge, the employee / cluster rollup         *)
(* (Pivot-2) and the BU performance table.                                 *)
(*                                                                         *)
(* Representation.                                                         *)
(*  - A Python str is a sequence of one-character strings, so that the     *)
(*    substring test, the prefix test and the lexicographic order of       *)
(*    pandas' sorts are computed, not assumed.                             *)
(*  - A column header is such a str; a frame holds the set of its headers. *)
(*  - A spreadsheet cell holding a name or a code is a record [t, s, n]:   *)
(*    t = "str" (text s), "num" (number n) or "nan" (empty cell).          *)
(*  - A measure is an integer number of thousandths (0.001), one digit     *)
(*    finer than the two decimals the handler rounds to.  A percentage is  *)
(*    an integer number of hundredths of a percent.                        *)
(*  - A target is a record [k, m, x]: the decimal m * 10^-x a cell spells  *)
(*    (k = "num"), an infinity (k = "inf", "-inf") or NaN (k = "nan").     *)
(*  - An emitted value that may be NaN, None or infinite is a record       *)
(*    [k, v] with k = "num", "nan", "none", "inf" or "-inf".               *)
(***************************************************************************)
EXTENDS Integers, Sequences, FiniteSets, TLC

VARIABLES
    pc,                   \* position in upload()
    df_sales,             \* [columns, rows] : the sales sheet
    df_ob,                \* [columns, rows] : the OB sheet
    files,                \* the three uploaded files: "none", "corrupt" or "ok"
    emp_sheet,            \* sheet "Employee Targets": [exists, columns, rows]
    bu_sheet,             \* sheet "BU Targets": [exists, columns, rows]
    emp_targets,          \* dict: seq of [key, val], keys unique
    bu_targets,           \* dict: seq of [key, val], keys unique
    merged,               \* outer merge of the two grouped frames
    rows,                 \* Pivot-2 rows (subtotal and employee rows)
    bu_performance_rows,  \* BU table rows
    response              \* [status, kind, cols]

vars == <<pc, df_sales, df_ob, files, emp_sheet, bu_sheet, emp_targets, bu_targets,
          merged, rows, bu_performance_rows, response>>

(***************************************************************************)
(* Bounds of the explored inputs.                                          *)
(***************************************************************************)
MaxSalesRows == 2
MaxObRows == 1
MaxTargets == 2

(***************************************************************************)
(* Program constants.                                                      *)
(***************************************************************************)
EMP_SCALE == 1
EMP_DEC == 2

\* thousandths per unit of the last kept decimal: 10^(3 - EMP_DEC)
RoundStep == 10

ColCluster == <<"C","l","u","s","t","e","r">>
ColEmp == <<"E","m","p","l","o","y","e","e"," ","R","e","s","p","o","n","s","i","b","l","e">>
ColCode == <<"H","e","l","i","o","s"," ","C","o","d","e">>
ColMeasure == <<"M","I","N","R","-","2","0","2","5">>
ColBU == <<"B","U">>
ColTarget == <<"T","a","r","g","e","t">>

\* the sheets of the targets workbook and the fields of the form
SheetEmp == <<"E","m","p","l","o","y","e","e"," ","T","a","r","g","e","t","s">>
SheetBU == <<"B","U"," ","T","a","r","g","e","t","s">>
FieldOb == <<"o","b","_","f","i","l","e">>
FieldSales == <<"f","i","l","e">>
FieldTargets == <<"t","a","r","g","e","t","s","_","f","i","l","e">>

ID_COLS == <<ColCluster, ColEmp, ColCode>>

DEFAULT_CLUSTER == <<"O", "D">>

EMPLOYEE_CLUSTER_MAP ==
    << [key |-> <<"P","r","i","t","e","s","h">>,         cluster |-> <<"C","G">>],
       [key |-> <<"A","b","i","n","a","s","h">>,         cluster |-> <<"C","G">>],
       [key |-> <<"M","a","y","u","r">>,                 cluster |-> <<"C","G">>],
       [key |-> <<"T","B","H">>,                         cluster |-> <<"C","G">>],
       [key |-> <<"A","r","t","i">>,                     cluster |-> <<"C","G">>],
       [key |-> <<"A","r","u","n">>,                     cluster |-> <<"O","D">>],
       [key |-> <<"A","b","h","i","s","h","e","k">>,     cluster |-> <<"O","D">>],
       [key |-> <<"B","o","d","h","i","s">>,             cluster |-> <<"O","D">>],
       [key |-> <<"M","a","h","e","s","h">>,             cluster |-> <<"O","D">>],
       [key |-> <<"M","D"," ","F","A","Z","L","E"," ","M","U","R","S","H","E","D">>,
                                                         cluster |-> <<"O","D">>],
       [key |-> <<"R","a","h","u","l">>,                 cluster |-> <<"B","+","R">>],
       [key |-> <<"H","a","r","s","h">>,                 cluster |-> <<"B","+","R">>],
       [key |-> <<"V","i","k","a","s","h">>,             cluster |-> <<"B","+","R">>],
       [key |-> <<"N","a","g","e","n","d","e","r">>,     cluster |-> <<"B","+","R">>],
       [key |-> <<"S","u","n","n","y">>,                 cluster |-> <<"J","S","R">>],
       [key |-> <<"P","r","i","y","a","n","k","a"," ","A","u","d","d","y">>,
                                                         cluster |-> <<"J","S","R">>] >>

(***************************************************************************)
(* Strings.                                                                *)
(***************************************************************************)
\* the characters in use, in code-point order
CharOrder ==
    << " ", "%", "&", "+", "-", ".",
       "0", "1", "2", "3", "4", "5", "6", "7", "8", "9",
       "A", "B", "C", "D", "E", "F", "G", "H", "I", "J", "K", "L", "M",
       "N", "O", "P", "Q", "R", "S", "T", "U", "V", "W", "X", "Y", "Z",
       "a", "b", "c", "d", "e", "f", "g", "h", "i", "j", "k", "l", "m",
       "n", "o", "p", "q", "r", "s", "t", "u", "v", "w", "x", "y", "z",
       "|" >>

Ord(c) == CHOOSE i \in 1..Len(CharOrder) : CharOrder[i] = c

RECURSIVE StrLt(_, _)
\* a < b for Python str
StrLt(a, b) ==
    IF b = <<>> THEN FALSE
    ELSE IF a = <<>> THEN TRUE
    ELSE IF a[1] = b[1] THEN StrLt(Tail(a), Tail(b))
    ELSE Ord(a[1]) < Ord(b[1])

\* key in name
Contains(key, name) ==
    \E i \in 0..(Len(name) - Len(key)) : SubSeq(name, i + 1, i + Len(key)) = key

\* s.startswith(p)
StartsWith(s, p) == Len(s) >= Len(p) /\ SubSeq(s, 1, Len(p)) = p

(***************************************************************************)
(* Cells and optional numbers.                                             *)
(***************************************************************************)
Str(s) == [t |-> "str", s |-> s, n |-> 0]
NumCell(n) == [t |-> "num", s |-> <<>>, n |-> n]
NaNCell == [t |-> "nan", s |-> <<>>, n |-> 0]

Num(n) == [k |-> "num", v |-> n]
NaN == [k |-> "nan", v |-> 0]
None == [k |-> "none", v |-> 0]
Inf == [k |-> "inf", v |-> 1]
NegInf == [k |-> "-inf", v |-> -1]

RECURSIVE Dec(_, _)
\* the decimal number m * 10^-x, x >= 3, in its shortest form: a value read
\* from a target sheet, which a text can spell finer than a thousandth
Dec(m, x) ==
    IF x > 3 /\ m % 10 = 0 THEN Dec(m \div 10, x - 1)
    ELSE [k |-> "num", m |-> m, x |-> x]

DecInf == [k |-> "inf", m |-> 1, x |-> 3]
DecNegInf == [k |-> "-inf", m |-> -1, x |-> 3]
DecNaN == [k |-> "nan", m |-> 0, x |-> 3]

RECURSIVE SumSeq(_)
SumSeq(s) == IF s = <<>> THEN 0 ELSE s[1] + SumSeq(Tail(s))

(***************************************************************************)
(* Binary doubles.  An amount is a decimal number of thousandths, held by  *)
(* the program as the nearest IEEE-754 double.  A natural number of any    *)
(* size is a sequence of limbs in base 2^15, least significant first,      *)
(* without leading zeros; a double is s * m * 2^e with m of exactly 53     *)
(* bits (m = <<>> for zero).                                               *)
(***************************************************************************)
Base == 2^15

Limb(x, i) == IF i \in DOMAIN x THEN x[i] ELSE 0

RECURSIVE Trim(_)
Trim(x) ==
    IF x = <<>> \/ x[Len(x)] # 0 THEN x ELSE Trim(SubSeq(x, 1, Len(x) - 1))

\* n as limbs, for 0 <= n < 2^31
Big(n) == Trim(<<n % Base, (n \div Base) % Base, n \div (Base * Base)>>)

\* x as an integer, for x < 2^31
Small(x) == Limb(x, 1) + Base * Limb(x, 2) + Base * Base * Limb(x, 3)

Odd(x) == Limb(x, 1) % 2 = 1

RECURSIVE AddBig(_, _, _)
\* x + y + c
AddBig(x, y, c) ==
    IF x = <<>> /\ y = <<>> THEN (IF c = 0 THEN <<>> ELSE <<c>>)
    ELSE LET s == Limb(x, 1) + Limb(y, 1) + c
         IN  <<s % Base>> \o AddBig(SubSeq(x, 2, Len(x)), SubSeq(y, 2, Len(y)), s \div Base)

RECURSIVE SubLimbs(_, _, _)
SubLimbs(x, y, c) ==
    IF x = <<>> THEN <<>>
    ELSE LET d == x[1] - Limb(y, 1) - c
         IN  <<d % Base>> \o SubLimbs(Tail(x), SubSeq(y, 2, Len(y)), IF d < 0 THEN 1 ELSE 0)

\* x - y, for x >= y
SubBig(x, y) == Trim(SubLimbs(x, y, 0))

RECURSIVE LessFrom(_, _, _)
\* x < y for x, y of one length, looking at the limbs i, i - 1, ..., 1
LessFrom(x, y, i) ==
    IF i = 0 THEN FALSE
    ELSE IF x[i] # y[i] THEN x[i] < y[i]
    ELSE LessFrom(x, y, i - 1)

Less(x, y) == IF Len(x) # Len(y) THEN Len(x) < Len(y) ELSE LessFrom(x, y, Len(x))

RECURSIVE MulLimbs(_, _, _)
MulLimbs(x, k, c) ==
    IF x = <<>> THEN (IF c = 0 THEN <<>> ELSE <<c>>)
    ELSE LET p == x[1] * k + c
         IN  <<p % Base>> \o MulLimbs(Tail(x), k, p \div Base)

\* x * k, for 0 <= k < 2^15
MulSmall(x, k) == Trim(MulLimbs(x, k, 0))

RECURSIVE MulBig(_, _)
MulBig(x, y) ==
    IF y = <<>> THEN <<>>
    ELSE Trim(AddBig(MulSmall(x, y[1]), <<0>> \o MulBig(x, Tail(y)), 0))

\* x * 2^n
Shl(x, n) ==
    LET k == 2^(n % 15)
        hi == [i \in 1..(Len(x) + 1) |->
                  ((Limb(x, i) * k) % Base) + ((Limb(x, i - 1) * k) \div Base)]
    IN  Trim([i \in 1..(n \div 15) |-> 0] \o hi)

\* x \div 2^n
Shr(x, n) ==
    LET k == 2^(n % 15)
        y == SubSeq(x, (n \div 15) + 1, Len(x))
    IN  Trim([i \in DOMAIN y |-> (y[i] \div k) + (Limb(y, i + 1) % k) * (Base \div k)])

\* the number of bits of x
BitLen(x) ==
    IF x = <<>> THEN 0
    ELSE 15 * (Len(x) - 1) + (CHOOSE n \in 1..15 : 2^(n - 1) <= x[Len(x)] /\ x[Len(x)] < 2^n)

Abs(x) == IF x < 0 THEN -x ELSE x

Sign(x) == IF x < 0 THEN -1 ELSE 1

RECURSIVE Digit(_, _, _, _)
\* the largest d + j, 0 <= j < 2 * k, with (d + j) * y <= r; k a power of 2
Digit(r, y, d, k) ==
    IF k = 0 THEN d
    ELSE Digit(r, y, IF Less(r, MulSmall(y, d + k)) THEN d ELSE d + k, k \div 2)

\* the quotient q extended by the digit d of r2 \div y
DivDigit(q, r2, y, d) ==
    [q |-> AddBig(MulSmall(q, 32), Big(d), 0), r |-> SubBig(r2, MulSmall(y, d))]

\* one step of the long division in base 32: s.r < y before and after
DivStep(s, y) == DivDigit(s.q, MulSmall(s.r, 32), y, Digit(MulSmall(s.r, 32), y, 0, 16))

RECURSIVE DivSteps(_, _, _)
\* n more digits of the quotient
DivSteps(s, y, n) ==
    IF n = 0 THEN s
    ELSE IF s.r = <<>> THEN [q |-> Shl(s.q, 5 * n), r |-> <<>>]
    ELSE DivSteps(DivStep(s, y), y, n - 1)

Zero == [s |-> 1, m |-> <<>>, e |-> 0]

\* round to nearest, ties to even: the kept bits go up when the dropped bits
\* low exceed half, or equal half with the kept bits odd or a sticky rest
RoundsUp(keep, low, half, sticky) ==
    Less(half, low) \/ (low = half /\ (sticky \/ Odd(keep)))

\* s * m * 2^e, m of 53 or (after a carry) 54 bits
Normal(s, m, e) ==
    IF BitLen(m) > 53 THEN [s |-> s, m |-> Shr(m, 1), e |-> e + 1]
    ELSE [s |-> s, m |-> m, e |-> e]

\* the double nearest to s * n * 2^e, n of 53 + d bits of which keep are the
\* leading 53
Nearest(s, n, sticky, e, d, keep) ==
    Normal(s,
           IF RoundsUp(keep, SubBig(n, Shl(keep, d)), Shl(<<1>>, d - 1), sticky)
           THEN AddBig(keep, <<1>>, 0) ELSE keep,
           e + d)

\* the double nearest to s * n * 2^e, n of bits bits
ToDoubleOf(s, n, sticky, e, bits) ==
    IF bits <= 53
    THEN [s |-> s, m |-> Shl(n, 53 - bits), e |-> e - (53 - bits)]
    ELSE Nearest(s, n, sticky, e, bits - 53, Shr(n, bits - 53))

\* the double nearest to s * (n + f) * 2^e, 0 <= f < 1, sticky telling f > 0;
\* n has more than 53 bits if sticky
ToDouble(s, n, sticky, e) ==
    IF n = <<>> THEN Zero ELSE ToDoubleOf(s, n, sticky, e, BitLen(n))

RatioOf(s, qr) == ToDouble(s, qr.q, qr.r # <<>>, -65)

\* the double nearest to a / d, for integers |a| < 2^31, 0 < d < 2^10
Ratio(a, d) ==
    IF a = 0 THEN Zero
    ELSE RatioOf(Sign(a),
                 DivSteps([q |-> Big(Abs(a) \div d), r |-> Big(Abs(a) % d)], Big(d), 13))

\* the double of an amount of x thousandths
Dbl(x) == Ratio(x, 1000)

\* the double of the integer n
DblInt(n) == ToDouble(Sign(n), Big(Abs(n)), FALSE, 0)

FDivOf(a, b, qr) == ToDouble(a.s * b.s, qr.q, qr.r # <<>>, a.e - b.e - 55)

\* a / b from the first quotient digit d of a.m / b.m
FDivFrom(a, b, d) ==
    FDivOf(a, b, DivSteps([q |-> Big(d), r |-> SubBig(a.m, MulSmall(b.m, d))], b.m, 11))

\* a / b, b # 0
FDiv(a, b) ==
    IF a.m = <<>> \/ b.m = <<>> THEN Zero ELSE FDivFrom(a, b, Digit(a.m, b.m, 0, 1))

\* a * b
FMul(a, b) ==
    IF a.m = <<>> \/ b.m = <<>> THEN Zero
    ELSE ToDouble(a.s * b.s, MulBig(a.m, b.m), FALSE, a.e + b.e)

\* sa * na * 2^e - sb * nb * 2^e
FSubOf(sa, na, sb, nb, e) ==
    ToDouble(IF sa = sb /\ Less(na, nb) THEN -sa ELSE sa,
             IF sa # sb THEN AddBig(na, nb, 0)
             ELSE IF Less(na, nb) THEN SubBig(nb, na)
             ELSE SubBig(na, nb),
             FALSE, e)

\* a - b with both brought to the exponent e
FSubAt(a, b, e) == FSubOf(a.s, Shl(a.m, a.e - e), b.s, Shl(b.m, b.e - e), e)

\* a - b
FSub(a, b) ==
    IF b.m = <<>> THEN a
    ELSE IF a.m = <<>> THEN [b EXCEPT !.s = -b.s]
    ELSE FSubAt(a, b, IF a.e < b.e THEN a.e ELSE b.e)

\* a + b
FAdd(a, b) == FSub(a, [b EXCEPT !.s = -b.s])

RECURSIVE group_sum(_, _, _)
\* y = val - compensation; t = sumx + y
kahan_add(rest, sumx, y, t) ==
    IF t = sumx THEN group_sum(rest, sumx, [y EXCEPT !.s = -y.s])
    ELSE group_sum(rest, t, FSub(FSub(t, sumx), y))

kahan_step(rest, sumx, y) ==
    IF y.m = <<>> THEN group_sum(rest, sumx, Zero) ELSE kahan_add(rest, sumx, y, FAdd(sumx, y))

\* the sum of a group of groupby(...).sum(): each cell is added with the
\* running compensation of the rounding errors (y = val - compensation;
\* t = sumx + y; compensation = t - sumx - y; sumx = t)
group_sum(vals, sumx, compensation) ==
    IF vals = <<>> THEN sumx
    ELSE kahan_step(Tail(vals), sumx, FSub(Dbl(vals[1]), compensation))

RECURSIVE loop_sum(_, _)
\* acc + v, then the rest
loop_add(rest, acc, v) == loop_sum(rest, FAdd(acc, v))

\* res += a[i] over the doubles vs, from left to right
loop_sum(vs, acc) == IF vs = <<>> THEN acc ELSE loop_add(Tail(vs), acc, vs[1])

RECURSIVE lane_sum(_, _, _, _)
\* r[j] += a[i + j] for the blocks of 8 below m: the elements i, i + 8, ...
lane_sum(vs, i, m, acc) ==
    IF i > m THEN acc ELSE lane_sum(vs, i + 8, m, FAdd(acc, vs[i]))

\* the 8 accumulators over the first m elements, m a multiple of 8, added as
\* ((r0 + r1) + (r2 + r3)) + ((r4 + r5) + (r6 + r7))
block_sum(vs, m) ==
    FAdd(FAdd(FAdd(lane_sum(vs, 9, m, vs[1]), lane_sum(vs, 10, m, vs[2])),
              FAdd(lane_sum(vs, 11, m, vs[3]), lane_sum(vs, 12, m, vs[4]))),
         FAdd(FAdd(lane_sum(vs, 13, m, vs[5]), lane_sum(vs, 14, m, vs[6])),
              FAdd(lane_sum(vs, 15, m, vs[7]), lane_sum(vs, 16, m, vs[8]))))

\* the length of the first half of more than 128 elements
HalfLen(n) == (n \div 2) - ((n \div 2) % 8)

RECURSIVE pairwise_sum(_)
\* ndarray.sum() of the doubles vs, which Series.sum() calls: a loop below 8
\* elements, 8 accumulators and the rest in a loop up to 128, two halves
\* above
pairwise_sum(vs) ==
    IF Len(vs) < 8 THEN loop_sum(vs, Zero)
    ELSE IF Len(vs) <= 128
    THEN loop_sum(SubSeq(vs, Len(vs) - (Len(vs) % 8) + 1, Len(vs)),
                  block_sum(vs, Len(vs) - (Len(vs) % 8)))
    ELSE FAdd(pairwise_sum(SubSeq(vs, 1, HalfLen(Len(vs)))),
              pairwise_sum(SubSeq(vs, HalfLen(Len(vs)) + 1, Len(vs))))

\* Series.sum() of a column each of whose values is the group sum of some
\* cells
series_sum(groups) ==
    pairwise_sum([i \in DOMAIN groups |-> group_sum(groups[i], Zero, Zero)])

RECURSIVE Pow10(_)
Pow10(n) == IF n = 0 THEN 1 ELSE 10 * Pow10(n - 1)

\* t * 2^-d to the nearest integer, a half going to the even neighbour; k is
\* t \div 2^d
NearestEven(t, d, k) ==
    Small(k) + (IF RoundsUp(k, SubBig(t, Shl(k, d)), Shl(<<1>>, d - 1), FALSE) THEN 1 ELSE 0)

PyRoundOf(a, t) ==
    IF a.e >= 0 THEN a.s * Small(Shl(t, a.e))
    ELSE a.s * NearestEven(t, -a.e, Shr(t, -a.e))

\* round(a, nd) in units of 10^-nd: the decimal nearest to the binary value
\* of the double, an exact half going to the even neighbour
PyRound(a, nd) == IF a.m = <<>> THEN 0 ELSE PyRoundOf(a, MulSmall(a.m, Pow10(nd)))

(***************************************************************************)
(* Rounding: round(x, EMP_DEC) and round(a / b * 100, 2).  An amount is    *)
(* carried as its decimal value x (thousandths) beside the double v the    *)
(* program holds for it.  Away from a decimal half the double and the      *)
(* decimal round alike (the double is within a few units of 2^-53 of the   *)
(* decimal); on a decimal half the binary value of the double decides.     *)
(* round of a Python float (a dict value, a cell of a row of iterrows, the *)
(* result of such a round) is the built-in round; round of a numpy.float64 *)
(* (a sum, .iloc[0], whatever is computed from one) is numpy's: the double *)
(* is multiplied by 10^ndigits, brought to the nearest integer and divided *)
(* again.                                                                  *)
(***************************************************************************)
\* numpy.float64.__round__(a, nd) in units of 10^-nd: rint(a * 10^nd)
NpRound(a, nd) == PyRound(FMul(a, DblInt(Pow10(nd))), 0)

\* round(a, nd) in units of 10^-nd, a a numpy.float64 or a Python float
round_of(a, nd, numpy) == IF numpy THEN NpRound(a, nd) ELSE PyRound(a, nd)

\* round(v / scale, EMP_DEC) in thousandths
RoundFine(v, scale, numpy) ==
    RoundStep * round_of(FDiv(v, DblInt(scale)), EMP_DEC, numpy)

\* round(v / scale, EMP_DEC) in thousandths, v the double computed for the
\* decimal amount x
RoundAs(x, v, scale, numpy) ==
    LET b == RoundStep * scale
        q == Abs(x) \div b
        r == Abs(x) % b
    IN  IF 2 * r < b THEN Sign(x) * RoundStep * q
        ELSE IF 2 * r > b THEN Sign(x) * RoundStep * (q + 1)
        ELSE RoundFine(v, scale, numpy)

\* the double of the finite decimal d
DblDec(d) == FDiv(DblInt(d.m), DblInt(Pow10(d.x)))

\* round(v / scale, EMP_DEC) in thousandths, v the double of the finite
\* decimal d
RoundDec(d, v, scale, numpy) ==
    IF d.x = 3 THEN RoundAs(d.m, v, scale, numpy) ELSE RoundFine(v, scale, numpy)

\* round((a - b) / scale, EMP_DEC) on thousandths
RoundSub(a, b, scale, numpy) == RoundAs(a - b, FSub(Dbl(a), Dbl(b)), scale, numpy)

\* one more decimal digit of the quotient d.q + d.r / t
NextDigit(d, t) == [q |-> 10 * d.q + (10 * d.r) \div t, r |-> (10 * d.r) % t]

\* the quotient d.q + d.r / t to the nearest integer, s its sign, p the
\* double computed for 100 times the quotient
PctOf(d, t, s, p, numpy) ==
    IF 2 * d.r < t THEN s * d.q
    ELSE IF 2 * d.r > t THEN s * (d.q + 1)
    ELSE round_of(p, 2, numpy)

\* v / w * 100
PctDouble(v, w) == FMul(FDiv(v, w), DblInt(100))

\* round(total / target * 100, 2) in hundredths of a percent (target # 0),
\* v the double computed for the decimal amount total
PctAs(total, v, target, numpy) ==
    PctOf(NextDigit(NextDigit(NextDigit(NextDigit(
              [q |-> Abs(total) \div Abs(target), r |-> Abs(total) % Abs(target)],
              Abs(target)), Abs(target)), Abs(target)), Abs(target)),
          Abs(target), Sign(total) * Sign(target), PctDouble(v, Dbl(target)), numpy)

\* round(total / target * 100, 2) of two amounts with at most 3 decimals
Pct(total, target, numpy) == PctAs(total, Dbl(total), target, numpy)

\* round(total / target * 100, 2), target a finite decimal other than 0
PctDec(total, v, target, numpy) ==
    IF target.x = 3 THEN PctAs(total, v, target.m, numpy)
    ELSE round_of(PctDouble(v, DblDec(target)), 2, numpy)

(***************************************************************************)
(* Target sheets -> dicts (lines 96-100).                                  *)
(***************************************************************************)
DigitChars == <<"0", "1", "2", "3", "4", "5", "6", "7", "8", "9">>

IsDigit(c) == \E d \in 1..10 : DigitChars[d] = c

DigitVal(c) == (CHOOSE d \in 1..10 : DigitChars[d] = c) - 1

AllDigits(s) == \A i \in DOMAIN s : IsDigit(s[i])

RECURSIVE ParseInt(_, _)
ParseInt(s, acc) ==
    IF s = <<>> THEN acc ELSE ParseInt(Tail(s), 10 * acc + DigitVal(s[1]))

RECURSIVE Strip(_)
\* s.strip()
Strip(s) ==
    IF s = <<>> THEN s
    ELSE IF s[1] = " " THEN Strip(Tail(s))
    ELSE IF s[Len(s)] = " " THEN Strip(SubSeq(s, 1, Len(s) - 1))
    ELSE s

\* the first position of s holding a character of cs, 0 if there is none
Find(s, cs) ==
    IF \E i \in DOMAIN s : s[i] \in cs
    THEN CHOOSE i \in DOMAIN s : s[i] \in cs /\ \A j \in 1..(i - 1) : s[j] \notin cs
    ELSE 0

HasSign(s) == s # <<>> /\ s[1] \in {"+", "-"}

Unsigned(s) == IF HasSign(s) THEN Tail(s) ELSE s

UpperCase ==
    << "A", "B", "C", "D", "E", "F", "G", "H", "I", "J", "K", "L", "M",
       "N", "O", "P", "Q", "R", "S", "T", "U", "V", "W", "X", "Y", "Z" >>

LowerCase ==
    << "a", "b", "c", "d", "e", "f", "g", "h", "i", "j", "k", "l", "m",
       "n", "o", "p", "q", "r", "s", "t", "u", "v", "w", "x", "y", "z" >>

\* s.lower()
ToLower(s) ==
    [i \in DOMAIN s |->
        IF \E j \in 1..26 : UpperCase[j] = s[i]
        THEN LowerCase[CHOOSE j \in 1..26 : UpperCase[j] = s[i]]
        ELSE s[i]]

\* the exponent spelt by ex
ExpVal(ex) ==
    IF HasSign(ex) /\ ex[1] = "-" THEN -ParseInt(Unsigned(ex), 0)
    ELSE ParseInt(Unsigned(ex), 0)

\* the decimal int.frac * 10^x
Literal(int, frac, x) ==
    IF x - Len(frac) >= -3
    THEN Dec(ParseInt(int \o frac, 0) * Pow10(x - Len(frac) + 3), 3)
    ELSE Dec(ParseInt(int \o frac, 0), Len(frac) - x)

ParseDigits(int, frac, x, ok) ==
    IF ok /\ AllDigits(int) /\ AllDigits(frac) /\ Len(int) + Len(frac) > 0
    THEN Literal(int, frac, x)
    ELSE DecNaN

\* the mantissa: digits with at most one point, at position ip if ip > 0
ParsePoint(mant, ip, x, ok) ==
    IF ip = 0 THEN ParseDigits(mant, <<>>, x, ok)
    ELSE ParseDigits(SubSeq(mant, 1, ip - 1), SubSeq(mant, ip + 1, Len(mant)), x, ok)

\* mantissa and exponent
ParseExp(mant, ex) ==
    ParsePoint(mant, Find(mant, {"."}), ExpVal(ex),
               Unsigned(ex) # <<>> /\ AllDigits(Unsigned(ex)))

\* u without sign: a literal with an exponent at position ie if ie > 0
ParseLiteral(u, ie) ==
    IF ie = 0 THEN ParsePoint(u, Find(u, {"."}), 0, TRUE)
    ELSE ParseExp(SubSeq(u, 1, ie - 1), SubSeq(u, ie + 1, Len(u)))

\* -d if neg, else d
Signed(neg, d) ==
    IF ~neg THEN d
    ELSE IF d.k = "inf" THEN DecNegInf
    ELSE [d EXCEPT !.m = -d.m]

\* a sign, then digits with at most one point and an optional exponent
ParseStripped(t) ==
    Signed(HasSign(t) /\ t[1] = "-", ParseLiteral(Unsigned(t), Find(Unsigned(t), {"e", "E"})))

\* text is inf or infinity in any case, with or without a sign, and nothing
\* around it
IsInfinity(text) ==
    ToLower(Unsigned(text)) \in {<<"i","n","f">>, <<"i","n","f","i","n","i","t","y">>}

\* the number a text spells, NaN when it spells none: an infinity, or,
\* between blanks, a decimal literal
ParseFloat(text) ==
    IF IsInfinity(text) THEN Signed(text[1] = "-", DecInf)
    ELSE ParseStripped(Strip(text))

\* pd.to_numeric(cell, errors="coerce"): a number, the number a text spells,
\* else NaN
to_numeric(raw) ==
    IF raw.t = "num" THEN Dec(raw.n, 3)
    ELSE IF raw.t = "str" THEN ParseFloat(raw.s)
    ELSE DecNaN

\* .fillna(0) of the Target column
fillna_target(d) == IF d.k = "nan" THEN Dec(0, 3) ELSE d

\* .fillna(0)
fillna0(v) == IF v.k = "nan" THEN 0 ELSE v.v

HasKey(d, key) == \E i \in DOMAIN d : d[i].key = key

\* d.get(key, default)
Get(d, key, default) ==
    IF HasKey(d, key) THEN d[CHOOSE i \in DOMAIN d : d[i].key = key].val ELSE default

DictPut(d, key, val) ==
    IF HasKey(d, key)
    THEN [i \in DOMAIN d |-> IF d[i].key = key THEN [key |-> key, val |-> val] ELSE d[i]]
    ELSE Append(d, [key |-> key, val |-> val])

RECURSIVE to_dict(_, _)
\* df.set_index(key)["Target"].fillna(0).to_dict(): a repeated key keeps its
\* first position and its last value
to_dict(sheet, d) ==
    IF sheet = <<>> THEN d
    ELSE to_dict(Tail(sheet), DictPut(d, sheet[1].key, fillna_target(to_numeric(sheet[1].raw))))

(***************************************************************************)
(* Classification.                                                         *)
(***************************************************************************)
RECURSIVE ScanClusterMap(_, _)
\* for map_key, cluster in EMPLOYEE_CLUSTER_MAP.items(): first hit returns
ScanClusterMap(name, i) ==
    IF i > Len(EMPLOYEE_CLUSTER_MAP) THEN DEFAULT_CLUSTER
    ELSE IF Contains(EMPLOYEE_CLUSTER_MAP[i].key, name) THEN EMPLOYEE_CLUSTER_MAP[i].cluster
    ELSE ScanClusterMap(name, i + 1)

\* the patterns of the map that occur in name
MatchIdx(name) ==
    {i \in DOMAIN EMPLOYEE_CLUSTER_MAP : Contains(EMPLOYEE_CLUSTER_MAP[i].key, name)}

\* classification by the longest pattern occurring in the name
get_cluster_longest(cell) ==
    IF cell.t = "str" /\ MatchIdx(cell.s) # {}
    THEN EMPLOYEE_CLUSTER_MAP[
            CHOOSE m \in MatchIdx(cell.s) :
                \A k \in MatchIdx(cell.s) :
                    Len(EMPLOYEE_CLUSTER_MAP[m].key) >= Len(EMPLOYEE_CLUSTER_MAP[k].key)
         ].cluster
    ELSE DEFAULT_CLUSTER

get_cluster(cell) ==
    IF cell.t = "str" THEN ScanClusterMap(cell.s, 1) ELSE DEFAULT_CLUSTER

get_bu_from_helios(cell) ==
    IF cell.t = "str"
    THEN IF StartsWith(cell.s, <<"P","P">>) THEN <<"P","P">>
         ELSE IF StartsWith(cell.s, <<"H","D">>) THEN <<"H","&","D">>
         ELSE IF StartsWith(cell.s, <<"I","D">>) THEN <<"I","N","D">>
         ELSE IF StartsWith(cell.s, <<"S","P">>) \/ StartsWith(cell.s, <<"P","S">>)
              THEN <<"S","P">>
         ELSE IF StartsWith(cell.s, <<"D","P">>) \/ StartsWith(cell.s, <<"D","E">>)
              THEN <<"D","E">>
         ELSE <<"O","t","h","e","r">>
    ELSE <<"O","t","h","e","r">>

\* df.columns = df.columns.str.strip()
StripColumns(df) == [columns |-> {Strip(c) : c \in df.columns}, rows |-> df.rows]

\* df['Cluster'] = df['Employee Responsible'].apply(get_cluster)
AddCluster(df) ==
    [columns |-> df.columns \cup {ColCluster},
     rows |-> [i \in DOMAIN df.rows |->
                  [df.rows[i] EXCEPT !.Cluster = get_cluster(df.rows[i].emp)]]]

\* df["BU"] = df["Helios Code"].apply(get_bu_from_helios)
AddBU(df) ==
    [columns |-> df.columns \cup {ColBU},
     rows |-> [i \in DOMAIN df.rows |->
                  [df.rows[i] EXCEPT !.BU = get_bu_from_helios(df.rows[i].code)]]]

(***************************************************************************)
(* groupby(["Cluster", "Employee Responsible"]).sum() and the outer merge. *)
(***************************************************************************)
\* order of the group keys: numbers before text, text by code point
CellLt(a, b) ==
    IF a.t = "num" /\ b.t = "num" THEN a.n < b.n
    ELSE IF a.t = "num" THEN b.t = "str"
    ELSE IF b.t = "num" THEN FALSE
    ELSE StrLt(a.s, b.s)

KeyLt(k1, k2) ==
    \/ StrLt(k1.Cluster, k2.Cluster)
    \/ k1.Cluster = k2.Cluster /\ CellLt(k1.emp, k2.emp)

RECURSIVE SortKeys(_)
SortKeys(S) ==
    IF S = {} THEN <<>>
    ELSE LET m == CHOOSE x \in S : \A y \in S \ {x} : KeyLt(x, y)
         IN  <<m>> \o SortKeys(S \ {m})

KeyOf(r) == [Cluster |-> r.Cluster, emp |-> r.emp]

\* the group keys; groupby's default dropna=True leaves out a NaN key
GroupKeys(rs) == {KeyOf(rs[i]) : i \in {j \in DOMAIN rs : rs[j].emp.t # "nan"}}

\* the measure cells of the group key, in row order
GroupCells(rs, key) ==
    LET hit == SelectSeq(rs, LAMBDA r : KeyOf(r) = key)
    IN  [i \in DOMAIN hit |-> hit[i].val]

RECURSIVE GroupSum(_, _)
GroupSum(rs, key) ==
    IF rs = <<>> THEN 0
    ELSE (IF KeyOf(rs[1]) = key THEN rs[1].val ELSE 0) + GroupSum(Tail(rs), key)

\* df.groupby(["Cluster", "Employee Responsible"])[col].sum().reset_index()
groupby_cluster_emp(rs) ==
    LET ks == SortKeys(GroupKeys(rs))
    IN  [i \in DOMAIN ks |->
            [Cluster |-> ks[i].Cluster, emp |-> ks[i].emp,
             val |-> GroupSum(rs, ks[i]), cells |-> GroupCells(rs, ks[i])]]

GrpKeys(g) == {KeyOf(g[i]) : i \in DOMAIN g}

GrpVal(g, key) ==
    IF key \in GrpKeys(g)
    THEN Num(g[CHOOSE i \in DOMAIN g : KeyOf(g[i]) = key].val)
    ELSE NaN

\* the cells summed into the value of key, none for a key not in g
GrpCells(g, key) ==
    IF key \in GrpKeys(g)
    THEN g[CHOOSE i \in DOMAIN g : KeyOf(g[i]) = key].cells
    ELSE <<>>

\* the rows of the outer merge for keys ks, NaN filled with 0; ob and sales
\* are the decimal sums, ob_cells and sales_cells the cells they were summed
\* from (the double of the sum is group_sum of the cells)
MergeRows(ks, grp_ob, grp_sales) ==
    [i \in DOMAIN ks |->
        [Cluster |-> ks[i].Cluster, emp |-> ks[i].emp,
         ob |-> fillna0(GrpVal(grp_ob, ks[i])),
         ob_cells |-> GrpCells(grp_ob, ks[i]),
         sales |-> fillna0(GrpVal(grp_sales, ks[i])),
         sales_cells |-> GrpCells(grp_sales, ks[i])]]

\* pd.merge(grp_ob, grp_sales, on=[...], how="outer").fillna(0) where the
\* outer merge does not sort (pandas before 2.2): the keys of grp_ob in
\* their order, then the keys that only grp_sales has, in theirs
merge_outer_left_first(grp_ob, grp_sales) ==
    LET right_only == SelectSeq(grp_sales, LAMBDA g : KeyOf(g) \notin GrpKeys(grp_ob))
    IN  MergeRows([i \in DOMAIN grp_ob |-> KeyOf(grp_ob[i])]
                  \o [i \in DOMAIN right_only |-> KeyOf(right_only[i])],
                  grp_ob, grp_sales)

\* pd.merge(grp_ob, grp_sales, on=[...], how="outer").fillna(0) where the
\* outer merge sorts (pandas from 2.2 on): the union of the keys, sorted
\* lexicographically
merge_outer(grp_ob, grp_sales) ==
    MergeRows(SortKeys(GrpKeys(grp_ob) \cup GrpKeys(grp_sales)), grp_ob, grp_sales)

(***************************************************************************)
(* Pivot-2: cluster subtotal rows and employee rows (lines 149-189).       *)
(***************************************************************************)
RECURSIVE SortStrs(_)
SortStrs(S) ==
    IF S = {} THEN <<>>
    ELSE LET m == CHOOSE x \in S : \A y \in S \ {x} : StrLt(x, y)
         IN  <<m>> \o SortStrs(S \ {m})

\* merged.groupby("Cluster") with the default sort=True: clusters in
\* ascending order
ClusterOrder_sorted(m, seen) == seen \o SortStrs({m[i].Cluster : i \in DOMAIN m})

RECURSIVE ClusterOrder(_, _)
\* merged.groupby("Cluster", sort=False): clusters by first appearance
ClusterOrder(m, seen) ==
    IF m = <<>> THEN seen
    ELSE IF \E i \in DOMAIN seen : seen[i] = m[1].Cluster
         THEN ClusterOrder(Tail(m), seen)
         ELSE ClusterOrder(Tail(m), Append(seen, m[1].Cluster))

SubFrame(m, clust) == SelectSeq(m, LAMBDA r : r.Cluster = clust)

\* a + b of two decimals, inf - inf being NaN
AddDec(a, b) ==
    IF a.k = "nan" \/ b.k = "nan" THEN DecNaN
    ELSE IF a.k = "num" /\ b.k = "num"
    THEN IF a.x < b.x THEN Dec(a.m * Pow10(b.x - a.x) + b.m, b.x)
         ELSE Dec(a.m + b.m * Pow10(a.x - b.x), a.x)
    ELSE IF a.k = "num" THEN b
    ELSE IF b.k = "num" \/ a.k = b.k THEN a
    ELSE DecNaN

RECURSIVE SumDec(_, _)
SumDec(ds, acc) == IF ds = <<>> THEN acc ELSE SumDec(Tail(ds), AddDec(acc, ds[1]))

\* sub["Employee Responsible"].map(emp_targets): NaN for a member that is
\* not in the table
MappedTargets(sub, targets) ==
    [i \in DOMAIN sub |-> Get(targets, sub[i].emp, DecNaN)]

\* the values that are not NaN
NotNaN(ds) == SelectSeq(ds, LAMBDA d : d.k # "nan")

\* the mapped sum without min_count: 0 when no member is in the table
MappedTargetSum_min_count0(sub, targets) ==
    SumDec(NotNaN(MappedTargets(sub, targets)), Dec(0, 3))

\* sub["Employee Responsible"].map(emp_targets).sum(min_count=1)
MappedTargetSum(sub, targets) ==
    IF Len(NotNaN(MappedTargets(sub, targets))) < 1 THEN DecNaN
    ELSE SumDec(NotNaN(MappedTargets(sub, targets)), Dec(0, 3))

\* emp_targets.get(clust, <mapped sum>)
cl_target_of(clust, sub, targets) ==
    IF HasKey(targets, Str(clust)) THEN Get(targets, Str(clust), Dec(0, 3))
    ELSE MappedTargetSum(sub, targets)

\* the sum of the finite mapped targets ds as a double: skipna puts 0 in the
\* place of a NaN, then ndarray.sum()
target_sum(ds) ==
    pairwise_sum([i \in DOMAIN ds |-> IF ds[i].k = "nan" THEN Zero ELSE DblDec(ds[i])])

\* the double of a finite cl_target_of
cl_target_double(clust, sub, targets) ==
    IF HasKey(targets, Str(clust)) THEN DblDec(Get(targets, Str(clust), Dec(0, 3)))
    ELSE target_sum(MappedTargets(sub, targets))

\* bool(x) of a float or None
Truthy(x) == IF x.k = "none" THEN FALSE ELSE IF x.k = "nan" THEN TRUE ELSE x.v # 0

\* round(d / scale, EMP_DEC) of the decimal d, v its double if it is finite
RoundTarget(d, v, scale, numpy) ==
    IF d.k = "nan" THEN NaN
    ELSE IF d.k = "inf" THEN Inf
    ELSE IF d.k = "-inf" THEN NegInf
    ELSE Num(RoundDec(d, v, scale, numpy))

\* round(x / scale, EMP_DEC) with NaN and the infinities propagating
RoundV(x, v, scale, numpy) ==
    IF x.k = "num" THEN Num(RoundAs(x.v, v, scale, numpy)) ELSE x

\* round(a - b, EMP_DEC) with NaN and the infinities propagating
SubV(a, b, numpy) == IF a.k = "num" THEN Num(RoundSub(a.v, b, 1, numpy)) ELSE a

\* round(total / target * 100, 2): NaN for a NaN target, 0 for an infinite one
PctV(total, target, numpy) ==
    IF target.k = "num" THEN Num(Pct(total, target.v, numpy))
    ELSE IF target.k = "nan" THEN NaN
    ELSE Num(0)

\* sub[ob_col + "_ob"].sum()
subtotal_ob_of(sub) == SumSeq([i \in DOMAIN sub |-> sub[i].ob])

\* the sales subtotal taken from the OB column
subtotal_sales_of_ob_column(sub) == SumSeq([i \in DOMAIN sub |-> sub[i].ob])

\* sub[sales_col + "_sales"].sum()
subtotal_sales_of(sub) == SumSeq([i \in DOMAIN sub |-> sub[i].sales])

\* the doubles of the two subtotals
subtotal_ob_double(sub) == series_sum([i \in DOMAIN sub |-> sub[i].ob_cells])

subtotal_sales_double(sub) == series_sum([i \in DOMAIN sub |-> sub[i].sales_cells])

\* round(cl_target, EMP_DEC) if cl_target is not None else None: the round
\* of a float when cl_target is an entry of the dict, of a numpy.float64 when
\* it is the mapped sum
cl_target_round(cl_target, v, numpy) == RoundTarget(cl_target, v, 1, numpy)

\* round(cl_target / EMP_SCALE, EMP_DEC) if cl_target is not None else None
cl_target_mn_of(cl_target, numpy) ==
    IF cl_target # None THEN RoundV(cl_target, Dbl(cl_target.v), EMP_SCALE, numpy) ELSE None

\* the subtotal row from its rounded totals and target (lines 160-169);
\* total_ob_mn and total_sales_mn are numpy.float64, and so is what is
\* computed from them
subtotal_row_of(clust, total_ob_mn, total_sales_mn, cl_target_mn) ==
    [kind |-> "subtotal",
     Cluster |-> clust,
     emp |-> Str(clust \o <<" ", "T", "o", "t", "a", "l">>),
     ob_total |-> Num(total_ob_mn),
     ob_rem |-> IF cl_target_mn # None THEN SubV(cl_target_mn, total_ob_mn, TRUE) ELSE None,
     ob_ach |-> IF Truthy(cl_target_mn) THEN PctV(total_ob_mn, cl_target_mn, TRUE) ELSE None,
     sales_total |-> Num(total_sales_mn),
     sales_rem |-> IF cl_target_mn # None THEN SubV(cl_target_mn, total_sales_mn, TRUE)
                   ELSE None,
     sales_ach |-> IF Truthy(cl_target_mn) THEN PctV(total_sales_mn, cl_target_mn, TRUE)
                   ELSE None,
     Target |-> cl_target_mn]

\* the subtotal row from the three sums (lines 153-159), numpy telling that
\* cl_target is the mapped sum
subtotal_row_from(clust, ob, v_ob, sales, v_sales, cl_target, v_target, numpy) ==
    subtotal_row_of(clust,
        RoundAs(ob, v_ob, EMP_SCALE, TRUE),
        RoundAs(sales, v_sales, EMP_SCALE, TRUE),
        cl_target_mn_of(cl_target_round(cl_target, v_target, numpy), numpy))

subtotal_row(clust, sub, targets) ==
    subtotal_row_from(clust,
        subtotal_ob_of(sub), subtotal_ob_double(sub),
        subtotal_sales_of(sub), subtotal_sales_double(sub),
        cl_target_of(clust, sub, targets), cl_target_double(clust, sub, targets),
        ~HasKey(targets, Str(clust)))

\* the employee target kept whenever it is not zero
tgt_mn_nonzero(tgt) ==
    IF tgt.m # 0 THEN RoundTarget(tgt, DblDec(tgt), EMP_SCALE, FALSE) ELSE Num(0)

\* round(tgt / EMP_SCALE, EMP_DEC) if tgt > 0 else 0
tgt_mn_of(tgt) ==
    IF tgt.m > 0 THEN RoundTarget(tgt, DblDec(tgt), EMP_SCALE, FALSE) ELSE Num(0)

\* the employee row from its rounded target and totals (lines 178-187), all
\* of them floats
emp_row_of(r, tgt_mn, ob_total, sales_total) ==
    [kind |-> "employee",
     Cluster |-> r.Cluster,
     emp |-> r.emp,
     ob_total |-> Num(ob_total),
     ob_rem |-> IF tgt_mn.v > 0 THEN SubV(tgt_mn, ob_total, FALSE) ELSE Num(0),
     ob_ach |-> IF tgt_mn.v > 0 THEN PctV(ob_total, tgt_mn, FALSE) ELSE Num(0),
     sales_total |-> Num(sales_total),
     sales_rem |-> IF tgt_mn.v > 0 THEN SubV(tgt_mn, sales_total, FALSE) ELSE Num(0),
     sales_ach |-> IF tgt_mn.v > 0 THEN PctV(sales_total, tgt_mn, FALSE) ELSE Num(0),
     Target |-> tgt_mn]

\* r of sub.iterrows() holds floats: the row of a frame of mixed dtypes is
\* an object Series
emp_row(r, targets) ==
    emp_row_of(r,
        tgt_mn_of(Get(targets, r.emp, Dec(0, 3))),
        RoundAs(r.ob, group_sum(r.ob_cells, Zero, Zero), EMP_SCALE, FALSE),
        RoundAs(r.sales, group_sum(r.sales_cells, Zero, Zero), EMP_SCALE, FALSE))

cluster_block(clust, m, targets) ==
    LET sub == SubFrame(m, clust)
    IN  <<subtotal_row(clust, sub, targets)>>
        \o [i \in DOMAIN sub |-> emp_row(sub[i], targets)]

RECURSIVE Pivot2Blocks(_, _, _)
Pivot2Blocks(order, m, targets) ==
    IF order = <<>> THEN <<>>
    ELSE cluster_block(order[1], m, targets) \o Pivot2Blocks(Tail(order), m, targets)

pivot2_rows(m, targets) == Pivot2Blocks(ClusterOrder(m, <<>>), m, targets)

(***************************************************************************)
(* BU performance table (lines 218-248).                                   *)
(***************************************************************************)
RECURSIVE IntToStr(_)
IntToStr(n) ==
    IF n < 10 THEN <<DigitChars[n + 1]>>
    ELSE IntToStr(n \div 10) \o <<DigitChars[(n % 10) + 1]>>

\* str() of a float with at most two decimals, h in hundredths, neg its sign
\* bit: the shortest repr keeps one decimal when the second is 0
FloatRepr(h, neg) ==
    LET a == IF h < 0 THEN -h ELSE h
        f == a % 100
    IN  (IF neg THEN <<"-">> ELSE <<>>)
        \o IntToStr(a \div 100) \o <<".">>
        \o (IF f % 10 = 0 THEN <<DigitChars[(f \div 10) + 1]>>
            ELSE <<DigitChars[(f \div 10) + 1], DigitChars[(f % 10) + 1]>>)

\* f"{round(value / bu_target * 100, 2)}%" if bu_target else "0.00%",
\* v the double computed for the decimal amount value; value / bu_target is
\* 0.0 or -0.0 for an infinite bu_target
ach_str(value, v, bu_target, numpy) ==
    LET neg == IF value # 0 THEN value < 0 ELSE v.s < 0
    IN  IF bu_target.m # 0
        THEN FloatRepr(IF bu_target.k = "num" THEN PctDec(value, v, bu_target, numpy) ELSE 0,
                       neg # (bu_target.m < 0)) \o <<"%">>
        ELSE <<"0", ".", "0", "0", "%">>

\* the rows of groupby("BU") equal to bu_name
BuRows(rs, bu_name) ==
    SelectSeq(rs, LAMBDA r : bu_name.t = "str" /\ r.BU = bu_name.s)

\* not row.empty
BuHit(rs, bu_name) == BuRows(rs, bu_name) # <<>>

\* <col>.iloc[0] if not row.empty else 0
BuValue(rs, bu_name) ==
    LET hit == BuRows(rs, bu_name)
    IN  IF hit # <<>> THEN SumSeq([i \in DOMAIN hit |-> hit[i].val]) ELSE 0

\* the double of BuValue: the sum groupby("BU") took over the rows of the BU
BuDouble(rs, bu_name) ==
    LET hit == BuRows(rs, bu_name)
    IN  group_sum([i \in DOMAIN hit |-> hit[i].val], Zero, Zero)

\* round((bu_target - value) / EMP_SCALE, EMP_DEC), w = bu_target - value
remaining_mn(bu_target, value, w, numpy) ==
    IF bu_target.k = "inf" THEN Inf
    ELSE IF bu_target.k = "-inf" THEN NegInf
    ELSE IF bu_target.x = 3 THEN Num(RoundAs(bu_target.m - value, w, EMP_SCALE, numpy))
    ELSE Num(RoundFine(w, EMP_SCALE, numpy))

\* the BU row from the two values, each a decimal amount beside its double
\* (lines 230-248); np_sales and np_ob tell that the value is the
\* numpy.float64 of .iloc[0], not the int 0
bu_row_of(bu_name, bu_target, v_target, np_sales, sales, v_sales, np_ob, ob, v_ob) ==
    [BU |-> bu_name,
     ob_mn |-> RoundAs(ob, v_ob, EMP_SCALE, np_ob),
     remaining_ob_mn |-> remaining_mn(bu_target, ob, FSub(v_target, v_ob), np_ob),
     ach_ob |-> ach_str(ob, v_ob, bu_target, np_ob),
     sales_mn |-> RoundAs(sales, v_sales, EMP_SCALE, np_sales),
     remaining_sales_mn |-> remaining_mn(bu_target, sales, FSub(v_target, v_sales), np_sales),
     ach_sales |-> ach_str(sales, v_sales, bu_target, np_sales),
     target_mn |-> RoundTarget(bu_target, v_target, EMP_SCALE, FALSE)]

bu_row(bu_name, bu_target, sales_rows, ob_rows) ==
    bu_row_of(bu_name, bu_target, DblDec(bu_target),
              BuHit(sales_rows, bu_name), BuValue(sales_rows, bu_name),
              BuDouble(sales_rows, bu_name),
              BuHit(ob_rows, bu_name), BuValue(ob_rows, bu_name),
              BuDouble(ob_rows, bu_name))

\* for bu_name, bu_target in bu_targets.items(): ...
bu_rows(targets, sales_rows, ob_rows) ==
    [i \in DOMAIN targets |-> bu_row(targets[i].key, targets[i].val, sales_rows, ob_rows)]

(***************************************************************************)
(* The handler upload(), step by step.                                     *)
(***************************************************************************)
NoResponse == [status |-> 0, kind |-> "none", cols |-> <<>>]

\* lines 76-86: the three files of the request, each refused when it is not
\* there or has no name
CheckFiles ==
    /\ pc = "start"
    /\ IF files.ob_file = "none"
       THEN /\ pc' = "done"
            /\ response' = [status |-> 400, kind |-> "no_ob_file", cols |-> <<>>]
       ELSE IF files.file = "none"
       THEN /\ pc' = "done"
            /\ response' = [status |-> 400, kind |-> "no_sales_file", cols |-> <<>>]
       ELSE IF files.targets_file = "none"
       THEN /\ pc' = "done"
            /\ response' = [status |-> 400, kind |-> "no_targets_file", cols |-> <<>>]
       ELSE /\ pc' = "files"
            /\ UNCHANGED response
    /\ UNCHANGED <<df_sales, df_ob, files, emp_sheet, bu_sheet, emp_targets, bu_targets,
                   merged, rows, bu_performance_rows>>

\* what lines 89-100 raise, <<>> if nothing: a file that is no workbook, a
\* sheet the targets workbook does not have, a column a target sheet does
\* not have (Target at lines 96-97 before the index column at 99-100)
ReadError ==
    IF files.file = "corrupt" THEN <<FieldSales>>
    ELSE IF files.ob_file = "corrupt" THEN <<FieldOb>>
    ELSE IF files.targets_file = "corrupt" THEN <<FieldTargets>>
    ELSE IF ~emp_sheet.exists THEN <<SheetEmp>>
    ELSE IF ~bu_sheet.exists THEN <<SheetBU>>
    ELSE IF ColTarget \notin emp_sheet.columns THEN <<ColTarget>>
    ELSE IF ColTarget \notin bu_sheet.columns THEN <<ColTarget>>
    ELSE IF ColEmp \notin emp_sheet.columns THEN <<ColEmp>>
    ELSE IF ColBU \notin bu_sheet.columns THEN <<ColBU>>
    ELSE <<>>

\* lines 88-102: the sheets are read and the target dicts built; any
\* exception ends the request with "Could not read Excel"
ReadExcel ==
    /\ pc = "files"
    /\ IF ReadError # <<>>
       THEN /\ pc' = "done"
            /\ response' = [status |-> 400, kind |-> "read_error", cols |-> ReadError]
            /\ UNCHANGED <<emp_targets, bu_targets>>
       ELSE /\ pc' = "read"
            /\ emp_targets' = to_dict(emp_sheet.rows, <<>>)
            /\ bu_targets' = to_dict(bu_sheet.rows, <<>>)
            /\ UNCHANGED response
    /\ UNCHANGED <<df_sales, df_ob, files, emp_sheet, bu_sheet, merged, rows,
                   bu_performance_rows>>

\* lines 104-112: in each frame, sales first, the headers are stripped and
\* the Cluster column is added; df['Employee Responsible'] raises KeyError
\* when no header is that name
Classify ==
    /\ pc = "read"
    /\ IF ColEmp \notin StripColumns(df_sales).columns
       THEN /\ pc' = "done"
            /\ response' = [status |-> 500, kind |-> "KeyError", cols |-> <<ColEmp>>]
            /\ df_sales' = StripColumns(df_sales)
            /\ UNCHANGED df_ob
       ELSE IF ColEmp \notin StripColumns(df_ob).columns
       THEN /\ pc' = "done"
            /\ response' = [status |-> 500, kind |-> "KeyError", cols |-> <<ColEmp>>]
            /\ df_sales' = AddCluster(StripColumns(df_sales))
            /\ df_ob' = StripColumns(df_ob)
       ELSE /\ pc' = "classified"
            /\ df_sales' = AddCluster(StripColumns(df_sales))
            /\ df_ob' = AddCluster(StripColumns(df_ob))
            /\ UNCHANGED response
    /\ UNCHANGED <<files, emp_sheet, bu_sheet, emp_targets, bu_targets, merged, rows,
                   bu_performance_rows>>

\* [c for c in ID_COLS if c not in df.columns]
MissingCols(df) == SelectSeq(ID_COLS, LAMBDA c : c \notin df.columns)

\* lines 114-127: the labeled validation failures
Validate ==
    /\ pc = "classified"
    /\ IF MissingCols(df_sales) # <<>>
       THEN /\ pc' = "done"
            /\ response' = [status |-> 400, kind |-> "missing_sales",
                            cols |-> MissingCols(df_sales)]
       ELSE IF MissingCols(df_ob) # <<>>
       THEN /\ pc' = "done"
            /\ response' = [status |-> 400, kind |-> "missing_ob",
                            cols |-> MissingCols(df_ob)]
       ELSE IF ColMeasure \notin df_sales.columns
       THEN /\ pc' = "done"
            /\ response' = [status |-> 400, kind |-> "no_measure_sales",
                            cols |-> <<ColMeasure>>]
       ELSE IF ColMeasure \notin df_ob.columns
       THEN /\ pc' = "done"
            /\ response' = [status |-> 400, kind |-> "no_measure_ob",
                            cols |-> <<ColMeasure>>]
       ELSE /\ pc' = "validated"
            /\ UNCHANGED response
    /\ UNCHANGED <<df_sales, df_ob, files, emp_sheet, bu_sheet, emp_targets, bu_targets,
                   merged, rows, bu_performance_rows>>

\* lines 136-147: both frames grouped, then merged; the order of the merged
\* rows is that of the installed pandas, which the repository does not pin
GroupMerge ==
    /\ pc = "validated"
    /\ \E sorts \in BOOLEAN :
          merged' = IF sorts
                    THEN merge_outer(groupby_cluster_emp(df_ob.rows),
                                     groupby_cluster_emp(df_sales.rows))
                    ELSE merge_outer_left_first(groupby_cluster_emp(df_ob.rows),
                                                groupby_cluster_emp(df_sales.rows))
    /\ pc' = "merged"
    /\ UNCHANGED <<df_sales, df_ob, files, emp_sheet, bu_sheet, emp_targets, bu_targets,
                   rows, bu_performance_rows, response>>

\* lines 149-190: the loop over the clusters of merged
Pivot2 ==
    /\ pc = "merged"
    /\ rows' = pivot2_rows(merged, emp_targets)
    /\ pc' = "pivot2"
    /\ UNCHANGED <<df_sales, df_ob, files, emp_sheet, bu_sheet, emp_targets, bu_targets,
                   merged, bu_performance_rows, response>>

\* lines 205-249: the BU column and the BU table
BUTable ==
    /\ pc = "pivot2"
    /\ df_sales' = AddBU(df_sales)
    /\ df_ob' = AddBU(df_ob)
    /\ bu_performance_rows' = bu_rows(bu_targets, AddBU(df_sales).rows, AddBU(df_ob).rows)
    /\ pc' = "bu"
    /\ UNCHANGED <<files, emp_sheet, bu_sheet, emp_targets, bu_targets, merged, rows, response>>

\* the rows appended to emp_rows (line 188)
emp_rows_of(rs) == SelectSeq(rs, LAMBDA r : r.kind = "employee")

\* lines 256-352: charts, Pivot-1 and the rendered page;
\* pd.DataFrame(emp_rows).dropna(subset=["Target"]) raises KeyError when
\* emp_rows is empty, the frame then having no Target column
Render ==
    /\ pc = "bu"
    /\ response' = IF emp_rows_of(rows) = <<>>
                   THEN [status |-> 500, kind |-> "KeyError",
                         cols |-> <<ColTarget>>]
                   ELSE [status |-> 200, kind |-> "result", cols |-> <<>>]
    /\ pc' = "done"
    /\ UNCHANGED <<df_sales, df_ob, files, emp_sheet, bu_sheet, emp_targets, bu_targets,
                   merged, rows, bu_performance_rows>>

Next ==
    \/ CheckFiles
    \/ ReadExcel
    \/ Classify
    \/ Validate
    \/ GroupMerge
    \/ Pivot2
    \/ BUTable
    \/ Render

(***************************************************************************)
(* The uploaded workbooks.                                                 *)
(***************************************************************************)
SeqsUpTo(S, n) == UNION {[1..k -> S] : k \in 0..n}

Row(emp, code, val) ==
    [emp |-> emp, code |-> code, val |-> val, Cluster |-> <<>>, BU |-> <<>>]

AllCols == {ColEmp, ColCode, ColMeasure}

\* a sheet with the columns cols: a row has no cell in an absent column
Frame(cols, rs) ==
    [columns |-> cols,
     rows |-> [i \in DOMAIN rs |->
                  Row(IF ColEmp \in cols THEN rs[i].emp ELSE NaNCell,
                      IF ColCode \in cols THEN rs[i].code ELSE NaNCell,
                      IF ColMeasure \in cols THEN rs[i].val ELSE 0)]]

\* the frame with blanks around every header
Padded(df) == [columns |-> {<<" ">> \o c \o <<" ", " ">> : c \in df.columns}, rows |-> df.rows]

nArun == Str(<<"A","r","u","n">>)
nZed == Str(<<"Z","e","d">>)
nMayur == Str(<<"M","a","y","u","r">>)
nSunny == Str(<<"S","u","n","n","y">>)
nArunMayur == Str(<<"A","r","u","n"," ","M","a","y","u","r">>)
nTBHAbhishek == Str(<<"T","B","H"," ","A","b","h","i","s","h","e","k">>)
nLowerArun == Str(<<"a","r","u","n">>)
nRahulK == Str(<<"R","a","h","u","l"," ","K">>)

cPP1 == Str(<<"P","P","1">>)
cHD2 == Str(<<"H","D","2">>)
cID3 == Str(<<"I","D","3">>)
cSP4 == Str(<<"S","P","4">>)
cPS5 == Str(<<"P","S","5">>)
cDP6 == Str(<<"D","P","6">>)
cDE7 == Str(<<"D","E","7">>)
cXX9 == Str(<<"X","X","9">>)
cLowerPP == Str(<<"p","p","1">>)
cP == Str(<<"P">>)

kPP == Str(<<"P","P">>)
kHD == Str(<<"H","&","D">>)
kIND == Str(<<"I","N","D">>)
kSP == Str(<<"S","P">>)
kPS == Str(<<"P","S">>)
kDE == Str(<<"D","E">>)
kOther == Str(<<"O","t","h","e","r">>)
kOD == Str(<<"O","D">>)

Entry(key, raw) == [key |-> key, raw |-> raw]

\* the target sheets of the specification's scenario
EmpSheet0 == <<Entry(nArun, NumCell(200000))>>
BuSheet0 == <<Entry(kPP, NumCell(1000000))>>

\* the BU sheet of the template generator: every target cell empty
BuSheetTemplate ==
    << Entry(kPP, NaNCell), Entry(kHD, NaNCell), Entry(kIND, NaNCell),
       Entry(kSP, NaNCell), Entry(kPS, NaNCell), Entry(kDE, NaNCell) >>

\* that sheet with one target typed into every cell
Filled(sheet, target) == [i \in DOMAIN sheet |-> Entry(sheet[i].key, NumCell(target))]

\* a sheet of the targets workbook
Sheet(exists, columns, rs) == [exists |-> exists, columns |-> columns, rows |-> rs]

EmpColumns == {ColEmp, ColTarget}
BuColumns == {ColBU, ColTarget}

Files(ob_file, file, targets_file) ==
    [ob_file |-> ob_file, file |-> file, targets_file |-> targets_file]

\* a request with three workbooks, the target sheets holding both columns
Input(sales, ob, es, bs) ==
    [sales |-> sales, ob |-> ob, es |-> Sheet(TRUE, EmpColumns, es),
     bs |-> Sheet(TRUE, BuColumns, bs), files |-> Files("ok", "ok", "ok")]

\* rows: names present and absent, mapped and unmapped, amounts below a cent
RowsA ==
    { Row(nArun, cPP1, 100000), Row(nArun, cXX9, 4), Row(nZed, cPP1, 4),
      Row(nMayur, cHD2, 40000), Row(NaNCell, NaNCell, 40000) }

RowsOb == { Row(nArun, cPP1, 40000), Row(nZed, cXX9, 4), Row(NaNCell, cPP1, 40000) }

\* the employee targets beside the varying rows
EmpSheetRows == <<Entry(nArun, NumCell(300000))>>

InputsRows ==
    { Input(Frame(AllCols, s), Frame(AllCols, o), EmpSheetRows, BuSheet0) :
        s \in SeqsUpTo(RowsA, MaxSalesRows), o \in SeqsUpTo(RowsOb, MaxObRows) }

\* two fixed pairs of sheets for the inputs that vary the targets
SalesT1 == <<Row(nArun, cPP1, 100000), Row(nZed, cXX9, 4)>>
SalesT2 == <<Row(nMayur, cHD2, 40000), Row(nArun, cPP1, 100000)>>
ObT == <<Row(nArun, cPP1, 40000)>>
Tables == {SalesT1, SalesT2}

\* targets: positive, negative, an empty cell, a text of digits, and one
\* below half a cent
EmpEntries ==
    { Entry(k, r) : k \in {nArun, nZed, kOD},
                    r \in {NumCell(200000), NumCell(-200000), NaNCell} }
    \cup { Entry(nArun, Str(<<"3","0","0">>)), Entry(nArun, NumCell(4)) }

InputsEmpTargets ==
    { Input(Frame(AllCols, s), Frame(AllCols, ObT), es, BuSheet0) :
        s \in Tables, es \in SeqsUpTo(EmpEntries, MaxTargets) }

BuEntries ==
    { Entry(k, r) : k \in {kPP, kHD, kOther},
                    r \in {NumCell(1000000), NumCell(300000), Str(<<"n","a">>)} }
    \cup { Entry(kPP, NumCell(-1000000)) }

InputsBuTargets ==
    { Input(Frame(AllCols, SalesT1), Frame(AllCols, ObT), EmpSheet0, bs) :
        bs \in SeqsUpTo(BuEntries, MaxTargets) }

\* sheets lacking columns
InputsColumns ==
    { Input(Frame(cs, SalesT1), Frame(co, ObT), EmpSheet0, BuSheet0) :
        cs \in SUBSET AllCols, co \in SUBSET AllCols }

AllNames ==
    { nArun, nZed, nMayur, nSunny, nArunMayur, nTBHAbhishek, nLowerArun, nRahulK,
      NumCell(7), NaNCell }

InputsNames ==
    { Input(Frame(AllCols, <<Row(a, cPP1, 100000)>>), Frame(AllCols, <<Row(b, cPP1, 40000)>>),
            EmpSheet0, BuSheet0) : a \in AllNames, b \in AllNames }

AllCodes ==
    { cPP1, cHD2, cID3, cSP4, cPS5, cDP6, cDE7, cXX9, cLowerPP, cP, NumCell(7), NaNCell }

InputsCodes ==
    { Input(Frame(AllCols, <<Row(nArun, a, 100000)>>), Frame(AllCols, <<Row(nArun, b, 40000)>>),
            EmpSheet0, bs) :
        a \in AllCodes, b \in {cPP1, cXX9},
        bs \in {BuSheetTemplate, Filled(BuSheetTemplate, 1000000)} }

\* amounts and targets that end in half a cent, alone and as sums, and an
\* achievement that ends in half a hundredth of a percent (0.47 / 0.32)
RowsHalf ==
    { Row(nArun, cPP1, 30), Row(nArun, cPP1, 5), Row(nZed, cPP1, 470),
      Row(nZed, cHD2, 1255) }

EmpSheetHalf == <<Entry(nArun, NumCell(1015)), Entry(nZed, NumCell(320))>>
BuSheetHalf == <<Entry(kPP, NumCell(320)), Entry(kHD, NumCell(2675))>>

InputsHalves ==
    { Input(Frame(AllCols, s), Frame(AllCols, o), EmpSheetHalf, BuSheetHalf) :
        s \in SeqsUpTo(RowsHalf, MaxSalesRows),
        o \in SeqsUpTo({Row(nArun, cPP1, 2675)}, MaxObRows) }

\* target cells holding text: numbers finer than a thousandth, with a sign,
\* an exponent, blanks around them, the infinities, and text that is no number
TargetTexts ==
    { <<"0",".","0","0","4","5">>, <<"0",".","0","0","0","4">>,
      <<"1","2",".","3","4","5","6">>, <<"1",".","0","0","5">>,
      <<"i","n","f">>, <<"-","i","n","f">>, <<"I","n","f","i","n","i","t","y">>,
      <<"1",".","5">>, <<"-","2","0","0">>, <<"1","e","3">>, <<" ","3","0","0"," ">>,
      <<".","5">>, <<"5",".">>, <<"+","5">>, <<"2","5","e","-","4">>,
      <<>>, <<".">>, <<"1","e">>, <<"1",".","5",".","2">>, <<"-"," ","5">>,
      <<"-","-","5">>, <<"n","a">>, <<"1",",","0","0","0">> }

SalesText == <<Row(nArun, cPP1, 30), Row(nZed, cPP1, 5)>>
ObText == <<Row(nArun, cPP1, 2675)>>

\* one such text as the target of an employee, of a second employee of the
\* same cluster, of the cluster, or of a BU
InputsTexts ==
    { Input(Frame(AllCols, SalesText), Frame(AllCols, ObText),
            <<Entry(k, Str(t)), Entry(nZed, Str(<<"i","n","f">>))>>, BuSheet0) :
        k \in {nArun, nZed, kOD}, t \in TargetTexts }
    \cup { Input(Frame(AllCols, SalesText), Frame(AllCols, ObText),
                 <<Entry(nArun, Str(t))>>, <<Entry(kPP, Str(t)), Entry(kHD, Str(t))>>) :
             t \in TargetTexts }

\* an infinity between blanks
InputsBlankInf ==
    { Input(Frame(AllCols, SalesText), Frame(AllCols, ObText),
            <<Entry(nArun, Str(<<" ", "i", "n", "f", " ">>))>>,
            <<Entry(kPP, Str(<<" ", "i", "n", "f">>))>>) }

\* the i-th of nine employees of the default cluster
Emp(i) == Str(<<"E", DigitChars[i + 1]>>)

\* clusters of eight and nine members whose amounts and targets add up to
\* half a cent, the sum in pairs differing from the sum from left to right
SalesMany == <<1021, 2659, 213, 643, 464, 1523, 1922, 1010>>
ObMany == <<2605, 2405, 148, 884, 98, 1728, 2963, 1693, 1771>>
TargetsMany == <<1189, 373, 2417, 1240, 299, 1543, 1196, 1695, 393>>

ManyRows(vals) == [i \in DOMAIN vals |-> Row(Emp(i), cPP1, vals[i])]
ManyTargets(from) ==
    [i \in 1..(Len(TargetsMany) - from + 1) |->
        Entry(Emp(i + from - 1), NumCell(TargetsMany[i + from - 1]))]

InputsMany ==
    { Input(Frame(AllCols, ManyRows(SalesMany)), Frame(AllCols, ManyRows(ObMany)),
            ManyTargets(from), BuSheet0) : from \in {1, 2} }
    \cup { Input(Frame(AllCols, ManyRows(ObMany)), Frame(AllCols, ManyRows(SalesMany)),
                 ManyTargets(1), BuSheet0) }

\* headers with blanks around them, all columns there or one lacking
InputsPadded ==
    { Input(Padded(Frame(cs, SalesT1)), Padded(Frame(co, ObT)), EmpSheet0, BuSheet0) :
        cs \in {AllCols, AllCols \ {ColCode}}, co \in {AllCols, AllCols \ {ColMeasure}} }

FileStates == {"none", "corrupt", "ok"}

\* requests lacking a file or holding one that is no workbook
InputsFiles ==
    { [Input(Frame(AllCols, SalesT1), Frame(AllCols, ObT), EmpSheet0, BuSheet0)
          EXCEPT !.files = Files(a, b, c)] :
        a \in FileStates, b \in FileStates, c \in FileStates }

\* targets workbooks lacking a sheet or a column
InputsSheets ==
    { [Input(Frame(AllCols, SalesT1), Frame(AllCols, ObT), EmpSheet0, BuSheet0)
          EXCEPT !.es = Sheet(ee, ec, EmpSheet0), !.bs = Sheet(be, bc, BuSheet0)] :
        ee \in BOOLEAN, be \in BOOLEAN,
        ec \in SUBSET EmpColumns, bc \in SUBSET BuColumns }

Inputs ==
    InputsRows \cup InputsEmpTargets \cup InputsBuTargets \cup InputsColumns
    \cup InputsNames \cup InputsCodes \cup InputsHalves \cup InputsTexts
    \cup InputsBlankInf \cup InputsMany \cup InputsPadded \cup InputsFiles
    \cup InputsSheets

Init ==
    \E in \in Inputs :
        /\ pc = "start"
        /\ df_sales = in.sales
        /\ df_ob = in.ob
        /\ files = in.files
        /\ emp_sheet = in.es
        /\ bu_sheet = in.bs
        /\ emp_targets = <<>>
        /\ bu_targets = <<>>
        /\ merged = <<>>
        /\ rows = <<>>
        /\ bu_performance_rows = <<>>
        /\ response = NoResponse

Spec == Init /\ [][Next]_vars

(***************************************************************************)
(* Properties.                                                             *)
(***************************************************************************)
Succeeded == pc = "done" /\ response.status = 200

\* merged / rows / bu_performance_rows hold their final value
Pivot2Ready == pc \in {"pivot2", "bu"} \/ Succeeded
BUReady == pc = "bu" \/ Succeeded

IsNull(x) == x.k \in {"nan", "none"}

\* y is the amount x rounded to 2 decimals, a half going either way
NearCent(y, x) == y % RoundStep = 0 /\ 2 * Abs(x - y) <= RoundStep

\* NearCent for a decimal d
NearCentDec(y, d) ==
    /\ y % RoundStep = 0
    /\ 2 * Abs(d.m - y * Pow10(d.x - 3)) <= RoundStep * Pow10(d.x - 3)

\* target - total of two emitted figures, the target NaN, infinite or finite
Minus(target, total) == IF target.k = "num" THEN Num(target.v - total) ELSE target

Subtotals == SelectSeq(rows, LAMBDA r : r.kind = "subtotal")
EmployeesOf(clust) == SelectSeq(rows, LAMBDA r : r.kind = "employee" /\ r.Cluster = clust)
MembersOf(clust) == SelectSeq(merged, LAMBDA r : r.Cluster = clust)

\* the (cluster, employee) pairs of the classified input rows, empty names included
InputPairs(df) == {KeyOf(df.rows[i]) : i \in DOMAIN df.rows}

NoMissingName ==
    /\ \A i \in DOMAIN df_sales.rows : df_sales.rows[i].emp.t # "nan"
    /\ \A i \in DOMAIN df_ob.rows : df_ob.rows[i].emp.t # "nan"

\* C1 (as claimed): every (cluster, employee) pair of either input has exactly
\* one reconciled row, holding the sum of its OB measures and the sum of its
\* sales measures (0 where absent), and no reconciled row has another key.
C1_OuterJoinComplete ==
    Succeeded =>
        /\ \A key \in InputPairs(df_sales) \cup InputPairs(df_ob) :
              /\ Cardinality({i \in DOMAIN merged : KeyOf(merged[i]) = key}) = 1
              /\ \A i \in DOMAIN merged :
                    KeyOf(merged[i]) = key =>
                        /\ merged[i].ob = GroupSum(df_ob.rows, key)
                        /\ merged[i].sales = GroupSum(df_sales.rows, key)
        /\ \A i \in DOMAIN merged :
              KeyOf(merged[i]) \in InputPairs(df_sales) \cup InputPairs(df_ob)

\* C2 (as claimed): each subtotal row's emitted OB (sales) total equals the
\* sum of the emitted OB (sales) totals of the employee rows of its cluster.
C2_RollupOfEmittedFigures ==
    Succeeded =>
        \A i \in DOMAIN Subtotals :
            LET s == Subtotals[i]
                es == EmployeesOf(s.Cluster)
            IN  /\ s.ob_total.v = SumSeq([j \in DOMAIN es |-> es[j].ob_total.v])
                /\ s.sales_total.v = SumSeq([j \in DOMAIN es |-> es[j].sales_total.v])

\* C2 (amended): each subtotal row's OB (sales) total is the sum of its member
\* employees' unrounded totals rounded to 2 decimals (a sum ending in exactly
\* half a cent going up or down); it equals the sum of the emitted employee
\* totals whenever those totals need no rounding.
C2_RollupUpToRounding ==
    Pivot2Ready =>
        \A i \in DOMAIN Subtotals :
            LET s == Subtotals[i]
                es == EmployeesOf(s.Cluster)
                ms == MembersOf(s.Cluster)
                ob == SumSeq([j \in DOMAIN ms |-> ms[j].ob])
                sales == SumSeq([j \in DOMAIN ms |-> ms[j].sales])
            IN  /\ Len(es) = Len(ms)
                /\ NearCent(s.ob_total.v, ob)
                /\ NearCent(s.sales_total.v, sales)
                /\ (\A j \in DOMAIN ms : ms[j].ob % RoundStep = 0)
                      => s.ob_total.v = SumSeq([j \in DOMAIN es |-> es[j].ob_total.v])
                /\ (\A j \in DOMAIN ms : ms[j].sales % RoundStep = 0)
                      => s.sales_total.v = SumSeq([j \in DOMAIN es |-> es[j].sales_total.v])

\* a cluster of two employees whose amounts below a cent add up to a cent
C2_Witness ==
    /\ pc = "pivot2"
    /\ \E i \in DOMAIN Subtotals :
          /\ Len(EmployeesOf(Subtotals[i].Cluster)) = 2
          /\ Subtotals[i].sales_total.v = 10
          /\ \A j \in DOMAIN EmployeesOf(Subtotals[i].Cluster) :
                EmployeesOf(Subtotals[i].Cluster)[j].sales_total.v = 0

InputClusters(df) == {df.rows[i].Cluster : i \in DOMAIN df.rows}
InputBUs(df) == {df.rows[i].BU : i \in DOMAIN df.rows}

ClusterMeasure(df, clust) ==
    LET rs == SelectSeq(df.rows, LAMBDA r : r.Cluster = clust)
    IN  SumSeq([j \in DOMAIN rs |-> rs[j].val])

BUMeasure(df, bu) ==
    LET rs == SelectSeq(df.rows, LAMBDA r : r.BU = bu)
    IN  SumSeq([j \in DOMAIN rs |-> rs[j].val])

SubtotalsOf(clust) == SelectSeq(rows, LAMBDA r : r.kind = "subtotal" /\ r.Cluster = clust)
BURowsOf(bu) == SelectSeq(bu_performance_rows, LAMBDA r : r.BU = Str(bu))

\* C3 (as claimed): the measure of every sales or OB row is counted in exactly
\* one emitted cluster subtotal and in exactly one emitted BU row: each
\* cluster (BU) of the input has one emitted row, whose totals are the sums of
\* the measures of all input rows of that cluster (BU).
C3_NoRowDropped ==
    Succeeded =>
        /\ \A clust \in InputClusters(df_sales) \cup InputClusters(df_ob) :
              /\ Len(SubtotalsOf(clust)) = 1
              /\ NearCent(SubtotalsOf(clust)[1].sales_total.v, ClusterMeasure(df_sales, clust))
              /\ NearCent(SubtotalsOf(clust)[1].ob_total.v, ClusterMeasure(df_ob, clust))
        /\ \A bu \in InputBUs(df_sales) \cup InputBUs(df_ob) :
              /\ Len(BURowsOf(bu)) = 1
              /\ NearCent(BURowsOf(bu)[1].sales_mn, BUMeasure(df_sales, bu))
              /\ NearCent(BURowsOf(bu)[1].ob_mn, BUMeasure(df_ob, bu))

\* the required columns that no header of the sheet names, blanks around a
\* header not counting
Lacking(df) == {c \in AllCols : \A h \in df.columns : Strip(h) # c}

\* C4 (as claimed): a request whose sales or OB sheet lacks a required column
\* ends in a labeled failure (status 400) naming a missing column, never in an
\* unlabeled exception.
C4_MissingColumnLabeled ==
    (pc = "done" /\ (Lacking(df_sales) # {} \/ Lacking(df_ob) # {})) =>
        /\ response.status = 400
        /\ response.cols # <<>>
        /\ \A i \in DOMAIN response.cols :
              response.cols[i] \in Lacking(df_sales) \cup Lacking(df_ob)

\* the targets of the members, an absent name giving 0
Resolved(ms) == [j \in DOMAIN ms |-> Get(emp_targets, ms[j].emp, Dec(0, 3))]

\* the emitted target t is the decimal d rounded to 2 decimals (a half going
\* up or down), or the infinity or NaN that d is
IsTarget(t, d) ==
    IF d.k = "num" THEN t.k = "num" /\ NearCentDec(t.v, d)
    ELSE t.k = d.k

\* C5 (as claimed): the cluster target is the table's entry for the cluster
\* label if there is one, else the sum over the members of their targets with
\* 0 for an absent member (0 when every member is absent).
C5_ClusterTargetAbsentIsZero ==
    Succeeded =>
        \A i \in DOMAIN Subtotals :
            LET s == Subtotals[i]
            IN  IsTarget(s.Target,
                    IF HasKey(emp_targets, Str(s.Cluster))
                    THEN Get(emp_targets, Str(s.Cluster), Dec(0, 3))
                    ELSE SumDec(Resolved(MembersOf(s.Cluster)), Dec(0, 3)))

\* C5 (amended): the cluster target is the table's entry for the cluster
\* label if there is one; else, if at least one member is in the table, the
\* sum over the members of their targets with 0 for an absent member; else
\* (no member in the table) it is NaN, not 0, and then remaining and
\* achievement of the subtotal row are null too.
C5_ClusterTargetTwoTier ==
    Pivot2Ready =>
        \A i \in DOMAIN Subtotals :
            LET s == Subtotals[i]
                ms == MembersOf(s.Cluster)
            IN  /\ IsTarget(s.Target,
                      IF HasKey(emp_targets, Str(s.Cluster))
                      THEN Get(emp_targets, Str(s.Cluster), Dec(0, 3))
                      ELSE IF \E j \in DOMAIN ms : HasKey(emp_targets, ms[j].emp)
                      THEN SumDec(Resolved(ms), Dec(0, 3))
                      ELSE DecNaN)
                /\ s.Target.k = "nan" =>
                      /\ IsNull(s.ob_rem) /\ IsNull(s.sales_rem)
                      /\ IsNull(s.ob_ach) /\ IsNull(s.sales_ach)

\* one cluster resolved by its label, another with no member in the table,
\* whose target, remaining and achievement are null
C5_Witness ==
    /\ pc = "pivot2"
    /\ \E i \in DOMAIN Subtotals :
          HasKey(emp_targets, Str(Subtotals[i].Cluster)) /\ Subtotals[i].Target.k = "num"
    /\ \E i \in DOMAIN Subtotals :
          /\ \A j \in DOMAIN MembersOf(Subtotals[i].Cluster) :
                ~HasKey(emp_targets, MembersOf(Subtotals[i].Cluster)[j].emp)
          /\ Subtotals[i].Target = NaN
          /\ IsNull(Subtotals[i].ob_rem) /\ IsNull(Subtotals[i].sales_ach)

\* C6 (as claimed): on a subtotal row the achievement percentages are null
\* exactly when the cluster target is null or <= 0; for a target > 0 they are
\* total / target * 100 rounded to 2 decimals; remaining is target - total
\* whenever the target is not null.
C6_ClusterAchievementPolicy ==
    Succeeded =>
        \A i \in DOMAIN Subtotals :
            LET s == Subtotals[i]
                noTarget == IsNull(s.Target) \/ s.Target.v <= 0
            IN  /\ IsNull(s.ob_ach) <=> noTarget
                /\ IsNull(s.sales_ach) <=> noTarget
                /\ ~noTarget =>
                      /\ s.ob_ach = PctV(s.ob_total.v, s.Target, TRUE)
                      /\ s.sales_ach = PctV(s.sales_total.v, s.Target, TRUE)
                /\ ~IsNull(s.Target) =>
                      /\ s.ob_rem = Minus(s.Target, s.ob_total.v)
                      /\ s.sales_rem = Minus(s.Target, s.sales_total.v)

Employees == SelectSeq(rows, LAMBDA r : r.kind = "employee")

\* C7 (as claimed): an employee row's target is the direct lookup (0 for an
\* absent name); if it is 0, remaining and achievement are 0; otherwise
\* remaining = target - total and achievement = total / target * 100.
C7_EmployeeDirectLookup ==
    Succeeded =>
        \A i \in DOMAIN Employees :
            LET e == Employees[i]
                raw == Get(emp_targets, e.emp, Dec(0, 3))
                t == RoundTarget(raw, DblDec(raw), EMP_SCALE, FALSE)
            IN  /\ e.Target = t
                /\ t.v = 0 => /\ e.ob_rem = Num(0) /\ e.sales_rem = Num(0)
                              /\ e.ob_ach = Num(0) /\ e.sales_ach = Num(0)
                /\ t.v # 0 => /\ e.ob_rem = Minus(t, e.ob_total.v)
                              /\ e.sales_rem = Minus(t, e.sales_total.v)
                              /\ e.ob_ach = PctV(e.ob_total.v, t, FALSE)
                              /\ e.sales_ach = PctV(e.sales_total.v, t, FALSE)

\* C7 (amended): an employee row's target is the direct lookup rounded to 2
\* decimals when the lookup is > 0, and 0 when the name is absent or its entry
\* is zero or negative (no cluster fallback); if the emitted target is 0,
\* remaining and achievement are 0; otherwise remaining = target - total and
\* achievement = total / target * 100 rounded to 2 decimals.
C7_EmployeePositiveTarget ==
    Pivot2Ready =>
        \A i \in DOMAIN Employees :
            LET e == Employees[i]
                raw == Get(emp_targets, e.emp, Dec(0, 3))
                t == IF raw.m > 0 THEN RoundTarget(raw, DblDec(raw), EMP_SCALE, FALSE)
                     ELSE Num(0)
            IN  /\ e.Target = t
                /\ t.v = 0 => /\ e.ob_rem = Num(0) /\ e.sales_rem = Num(0)
                              /\ e.ob_ach = Num(0) /\ e.sales_ach = Num(0)
                /\ t.v # 0 => /\ e.ob_rem = Minus(t, e.ob_total.v)
                              /\ e.sales_rem = Minus(t, e.sales_total.v)
                              /\ e.ob_ach = PctV(e.ob_total.v, t, FALSE)
                              /\ e.sales_ach = PctV(e.sales_total.v, t, FALSE)

\* the specification's scenario (OB 40, sales 100, target 200) beside an
\* employee without a target
C7_Witness ==
    /\ pc = "pivot2"
    /\ \E i \in DOMAIN Employees :
          LET e == Employees[i]
          IN  /\ e.emp = nArun /\ e.Target = Num(200000)
              /\ e.ob_total = Num(40000) /\ e.sales_total = Num(100000)
              /\ e.ob_rem = Num(160000) /\ e.sales_rem = Num(100000)
              /\ e.ob_ach = Num(2000) /\ e.sales_ach = Num(5000)
    /\ \E i \in DOMAIN Employees :
          /\ ~HasKey(emp_targets, Employees[i].emp)
          /\ Employees[i].Target = Num(0)
          /\ Employees[i].sales_rem = Num(0)

\* "%.2f" of h hundredths, followed by "%"
TwoDecimals(h, neg) ==
    LET a == IF h < 0 THEN -h ELSE h
    IN  (IF neg THEN <<"-">> ELSE <<>>)
        \o IntToStr(a \div 100) \o <<".">>
        \o <<DigitChars[((a % 100) \div 10) + 1], DigitChars[(a % 10) + 1]>> \o <<"%">>

\* C8 (as claimed): on a BU row remaining = target - value for sales and OB,
\* achievement is value / target * 100 as a string with exactly 2 decimals,
\* and "0.00%" when the target is zero.
C8_BUPolicy ==
    Succeeded =>
        \A i \in DOMAIN bu_performance_rows :
            LET b == bu_performance_rows[i]
                t == Get(bu_targets, b.BU, Dec(0, 3))
                sales == BUMeasure(df_sales, b.BU.s)
                ob == BUMeasure(df_ob, b.BU.s)
            IN  /\ t.k # "num" => /\ b.remaining_sales_mn = RoundTarget(t, Zero, 1, FALSE)
                                  /\ b.remaining_ob_mn = RoundTarget(t, Zero, 1, FALSE)
                /\ t.k = "num" =>
                      /\ NearCentDec(b.remaining_sales_mn.v, AddDec(t, Dec(-sales, 3)))
                      /\ NearCentDec(b.remaining_ob_mn.v, AddDec(t, Dec(-ob, 3)))
                /\ t.m = 0 => b.ach_sales = <<"0", ".", "0", "0", "%">>
                              /\ b.ach_ob = <<"0", ".", "0", "0", "%">>
                /\ t.m # 0 =>
                      /\ b.ach_sales =
                            TwoDecimals(IF t.k = "num"
                                        THEN PctDec(sales, BuDouble(df_sales.rows, b.BU), t,
                                                    BuHit(df_sales.rows, b.BU))
                                        ELSE 0,
                                        (sales >= 0) # (t.m > 0))
                      /\ b.ach_ob =
                            TwoDecimals(IF t.k = "num"
                                        THEN PctDec(ob, BuDouble(df_ob.rows, b.BU), t,
                                                    BuHit(df_ob.rows, b.BU))
                                        ELSE 0,
                                        (ob >= 0) # (t.m > 0))

ClusterLabels == {EMPLOYEE_CLUSTER_MAP[i].cluster : i \in DOMAIN EMPLOYEE_CLUSTER_MAP}

\* C9: every classified row, of the sales and of the OB sheet alike, carries a
\* cluster label: that of the first pattern of the map, in insertion order,
\* occurring in the name if the name is text and some pattern occurs in it,
\* the default cluster otherwise (text matching nothing, number, empty cell);
\* so one name has one cluster in both sheets.
C9_ClassifyCluster ==
    /\ \A df \in {df_sales, df_ob} :
          ColCluster \in df.columns =>
              \A i \in DOMAIN df.rows :
                  LET e == df.rows[i].emp
                  IN  /\ df.rows[i].Cluster \in ClusterLabels \cup {DEFAULT_CLUSTER}
                      /\ df.rows[i].Cluster =
                            IF e.t = "str" /\ MatchIdx(e.s) # {}
                            THEN EMPLOYEE_CLUSTER_MAP[
                                    CHOOSE m \in MatchIdx(e.s) :
                                        \A k \in MatchIdx(e.s) : m <= k].cluster
                            ELSE DEFAULT_CLUSTER
    /\ (ColCluster \in df_sales.columns /\ ColCluster \in df_ob.columns) =>
          \A i \in DOMAIN df_sales.rows : \A j \in DOMAIN df_ob.rows :
              df_sales.rows[i].emp = df_ob.rows[j].emp
                  => df_sales.rows[i].Cluster = df_ob.rows[j].Cluster

\* a name holding an earlier short pattern and a later longer one, classified
\* by the earlier; beside a number classified to the default cluster
C9_Witness ==
    /\ pc = "classified"
    /\ \E i \in DOMAIN df_sales.rows :
          /\ df_sales.rows[i].emp = nTBHAbhishek
          /\ df_sales.rows[i].Cluster = <<"C", "G">>
    /\ \E j \in DOMAIN df_ob.rows :
          /\ df_ob.rows[j].emp.t = "num"
          /\ df_ob.rows[j].Cluster = DEFAULT_CLUSTER

\* the clusters of the subtotal rows, in emission order
EmittedClusters == [i \in DOMAIN Subtotals |-> Subtotals[i].Cluster]

InputClusterSeq == [i \in DOMAIN df_sales.rows |-> [Cluster |-> df_sales.rows[i].Cluster]]
                   \o [i \in DOMAIN df_ob.rows |-> [Cluster |-> df_ob.rows[i].Cluster]]

\* C10 (as claimed): the cluster blocks are emitted in the order in which the
\* clusters first appear in the input rows (checked where no name is empty).
C10_InputOrder ==
    (Succeeded /\ NoMissingName) =>
        EmittedClusters = ClusterOrder(InputClusterSeq, <<>>)

\* the first row of merged holding cluster c
FirstRow(c) ==
    CHOOSE i \in DOMAIN merged :
        merged[i].Cluster = c /\ \A j \in 1..(i - 1) : merged[j].Cluster # c

Ascending(cl) == \A i \in DOMAIN cl : \A j \in DOMAIN cl : i < j => StrLt(cl[i], cl[j])

\* the clusters of the OB rows that have a name
ObClusters ==
    {df_ob.rows[i].Cluster : i \in {j \in DOMAIN df_ob.rows : df_ob.rows[j].emp.t # "nan"}}

\* C10 (amended): the cluster blocks are emitted, one block per cluster, in the
\* order in which the clusters first appear in the merged table, not in the
\* input rows; that order is either ascending by cluster label (the outer
\* merge sorts the key union) or the clusters of the OB sheet in ascending
\* order followed by the clusters only the sales sheet has, in ascending
\* order (the outer merge keeps the OB keys first).
C10_MergedOrder ==
    Pivot2Ready =>
        /\ {EmittedClusters[i] : i \in DOMAIN EmittedClusters}
              = {merged[i].Cluster : i \in DOMAIN merged}
        /\ \A i \in DOMAIN EmittedClusters : \A j \in DOMAIN EmittedClusters :
              i < j => FirstRow(EmittedClusters[i]) < FirstRow(EmittedClusters[j])
        /\ \A i \in DOMAIN rows :
              rows[i].kind = "subtotal" <=> (i = 1 \/ rows[i - 1].Cluster # rows[i].Cluster)
        /\ \A i \in DOMAIN rows : \A j \in DOMAIN rows :
              (i < j /\ rows[i].Cluster = rows[j].Cluster)
                  => \A k \in i..j : rows[k].Cluster = rows[i].Cluster
        /\ \/ Ascending(EmittedClusters)
           \/ \E n \in 0..Len(EmittedClusters) :
                 /\ Ascending(SubSeq(EmittedClusters, 1, n))
                 /\ Ascending(SubSeq(EmittedClusters, n + 1, Len(EmittedClusters)))
                 /\ \A i \in DOMAIN EmittedClusters :
                       i <= n <=> EmittedClusters[i] \in ObClusters

\* the OB sheet has one row of cluster OD, the sales sheet one row of cluster
\* CG, the merge kept the OB key first and the blocks come out OD, CG
C10_Witness ==
    /\ pc = "pivot2"
    /\ Len(df_ob.rows) = 1
    /\ Len(df_sales.rows) = 1
    /\ df_ob.rows[1].Cluster = <<"O", "D">>
    /\ df_sales.rows[1].Cluster = <<"C", "G">>
    /\ merged[1].Cluster = <<"O", "D">>
    /\ EmittedClusters = << <<"O", "D">>, <<"C", "G">> >>

====
